---- MODULE Spec2Model ----
(***************************************************************************)
(* The resume workflow of studio/ResumeStudio.py: a LangGraph StateGraph   *)
(* over ResumeState, compiled with interrupt_before = ["human_feedback"].  *)
(* The graph runs in supersteps: every node scheduled in a superstep reads *)
(* the state as of the start of the superstep, the updates the nodes       *)
(* return are merged when all of them have finished (the channel's reducer *)
(* for an annotated field, overwrite otherwise), and the successors of the *)
(* nodes that ran form the next superstep.                                 *)
(***************************************************************************)
EXTENDS Integers, Sequences, FiniteSets, TLC

VARIABLES
    state,      \* the ResumeState channels
    status,     \* "running" | "paused" | "done" | "error"
    tasks,      \* the nodes of the current superstep
    pending,    \* node -> the update it returned, for the nodes that finished
    log,        \* history: the nodes executed, "__interrupt__", "__end__"
    prompt,     \* history: what the last LLM request embedded
    gateSeen,   \* history: human_feedback as read by each evaluation of the gate's router
    input,      \* history: the state the caller invoked the graph with
    patches,    \* history: the patch of every resume
    failed,     \* the node whose LLM call raised, when status = "error"
    received    \* history: what the editor that ran last was called with

vars == <<state, status, tasks, pending, log, prompt, gateSeen, input, patches, failed,
          received>>

----------------------------------------------------------------------------
\* Bounds of the model.

\* The caller resumes a paused run at most this many times.
MaxResumes == 2
\* The caller supplies an initial iteration in MinInitIteration..MaxInitIteration, or none.
MaxInitIteration == 2
MinInitIteration == 0 - 1

\* A key that a TypedDict state does not hold, and one that it holds.
Absent == <<>>
Some(v) == <<v>>
\* state.get(key, default)
Get(o, default) == IF o = Absent THEN default ELSE o[1]

\* The texts a caller gives as human_feedback, initially or in a patch.
Feedbacks == {"ok", "OK", " ok", "", "need AWS keyword"}
\* Those among them a run starts with; the others arrive by a patch.
InitialFeedbacks == {"ok", "need AWS keyword"}
\* The answers of the LLM: structured qualifications, drafts, critiques.
QualificationsOut == {"quals_a", "quals_b"}
DraftOut == {"draft_a", "draft_b"}
CritiqueOut == {"critique_a", "critique_b"}

JobPost == "job post"
ResumeInput == "resume"

START == "__start__"
END == "__end__"
INTERRUPT == "__interrupt__"

----------------------------------------------------------------------------
\* The state schema and its merge policy.

\* ResumeState: the keys of the outer graph's state.
ResumeState ==
    {"job_post", "human_feedback", "resume_input", "qualifications",
     "resume_draft", "editor_feedback", "iteration"}

\* JobQualsState: the keys of the extraction subgraph's state.
JobQualsState == {"job_post", "human_feedback", "qualifications"}

\* A variant in which human_feedback keeps the first value written to it.
Reducer_keep_first(key, old, new) ==
    IF key = "editor_feedback" THEN old \o new
    ELSE IF key = "human_feedback" /\ old # <<>> THEN old
    ELSE <<new>>

\* A variant in which editor_feedback is a last-value channel too.
Reducer_overwrite(key, old, new) ==
    IF key = "editor_feedback" THEN new ELSE Some(new)

\* Annotated[List[str], operator.add] on editor_feedback: old + new.
\* Every other key is a last-value channel.
Reducer(key, old, new) ==
    IF key = "editor_feedback" THEN old \o new ELSE Some(new)

\* One node's update merged into the state.
ApplyWrites(st, w) ==
    [k \in DOMAIN st |-> IF k \in DOMAIN w THEN Reducer(k, st[k], w[k]) ELSE st[k]]

\* "\n".join(list)
RECURSIVE Join(_)
Join(list) ==
    IF list = <<>> THEN ""
    ELSE IF Len(list) = 1 THEN list[1]
    ELSE list[1] \o "\n" \o Join(Tail(list))

NoWrites == <<>>

----------------------------------------------------------------------------
\* The nodes: each returns its update, given the state it reads and, for a
\* node that calls the LLM, the LLM's answer.

\* A variant that leaves the feedback out of the request.
ExtractPrompt_no_feedback(st) ==
    [node |-> "extract_qualifications",
     job_post |-> st.job_post[1],
     human_feedback |-> ""]

ExtractPrompt(st) ==
    [node |-> "extract_qualifications",
     job_post |-> st.job_post[1],
     human_feedback |-> Get(st.human_feedback, "")]

extract_qualifications(st, answer) == "qualifications" :> answer

\* A variant of the subgraph that hands back the feedback it defaulted.
qua_builder_defaults(st, answer) ==
    LET sub == ApplyWrites([k \in JobQualsState |-> st[k]], extract_qualifications(st, answer))
    IN  [k \in JobQualsState |-> Get(sub[k], "")]

\* The compiled one-node subgraph used as the outer node: it receives the
\* JobQualsState keys of the outer state and returns every key of its own
\* state that holds a value.
qua_builder(st, answer) ==
    LET sub == ApplyWrites([k \in JobQualsState |-> st[k]], extract_qualifications(st, answer))
    IN  [k \in {j \in JobQualsState : sub[j] # Absent} |-> sub[k][1]]

human_feedback_node(st) == NoWrites

ApiFeedback == "[API editor returned no feedback]"

\* A variant that takes the feedback after it has been cleared.
DraftPrompt_cleared_first(st) ==
    [node |-> "draft_resume",
     job_post |-> st.job_post[1],
     qualifications |-> st.qualifications[1],
     resume_input |-> st.resume_input[1],
     resume_draft |-> Get(st.resume_draft, ""),
     feedback |-> ""]

DraftPrompt(st) ==
    [node |-> "draft_resume",
     job_post |-> st.job_post[1],
     qualifications |-> st.qualifications[1],
     resume_input |-> st.resume_input[1],
     resume_draft |-> Get(st.resume_draft, ""),
     feedback |-> Join(st.editor_feedback)]

draft_resume(st, answer) ==
    ("resume_draft" :> answer) @@ ("editor_feedback" :> <<>>)

editor_api(st) == "editor_feedback" :> <<ApiFeedback>>

CritiquePrompt(st) ==
    [node |-> "editor_critique", resume_draft |-> st.resume_draft[1]]

editor_critique(st, answer) == "editor_feedback" :> <<answer>>

\* Variants of the gate's router: one that forgets the absent case, and one
\* that compares without regard to case.
should_human_feedback_continue_no_none(st) ==
    IF st.human_feedback = Some("ok") THEN "draft_resume" ELSE "extract_qualifications"

should_human_feedback_continue_any_case(st) ==
    IF st.human_feedback \in {Absent, Some("ok"), Some("OK")}
    THEN "draft_resume"
    ELSE "extract_qualifications"

should_human_feedback_continue(st) ==
    IF st.human_feedback = Absent \/ st.human_feedback = Some("ok")
    THEN "draft_resume"
    ELSE "extract_qualifications"

\* A variant of the join that also blanks the draft.
revise_resume_resets(st) ==
    ("iteration" :> (Get(st.iteration, 0) + 1)) @@ ("resume_draft" :> "")

\* The fan-out router of the source: one Send per editor, each carrying
\* only the draft.  No edge of the graph uses it.
send_to_editors(st) ==
    <<[node |-> "editor_api", arg |-> [resume_draft |-> st.resume_draft[1]]],
      [node |-> "editor_critique", arg |-> [resume_draft |-> st.resume_draft[1]]]>>

revise_resume(st) == "iteration" :> (Get(st.iteration, 0) + 1)

IterationLimit == 2

\* Variants of the loop's router: one round too many, and one too few.
should_continue_gt(st) ==
    IF Get(st.iteration, 0) > IterationLimit THEN "write_final_draft" ELSE "draft_resume"

should_continue_early(st) ==
    IF Get(st.iteration, 0) >= IterationLimit - 1 THEN "write_final_draft" ELSE "draft_resume"

should_continue(st) ==
    IF Get(st.iteration, 0) >= IterationLimit THEN "write_final_draft" ELSE "draft_resume"

FinalPrompt(st) ==
    [node |-> "write_final_draft",
     resume_draft |-> Get(st.resume_draft, ""),
     feedback |-> Join(st.editor_feedback)]

write_final_draft(st, answer) == "resume_draft" :> answer

----------------------------------------------------------------------------
\* The graph.

Nodes ==
    {"extract_qualifications", "human_feedback", "draft_resume", "editor_api",
     "editor_critique", "revise_resume", "write_final_draft"}

\* A variant wired without the join: revise_resume follows draft_resume
\* directly instead of editor_critique.
Edges_no_join ==
    {<<START, "extract_qualifications">>,
     <<"extract_qualifications", "human_feedback">>,
     <<"draft_resume", "editor_api">>,
     <<"draft_resume", "editor_critique">>,
     <<"editor_api", "revise_resume">>,
     <<"draft_resume", "revise_resume">>,
     <<"write_final_draft", END>>}

\* A variant in which finalization loops back to drafting.
Edges_final_loops ==
    {<<START, "extract_qualifications">>,
     <<"extract_qualifications", "human_feedback">>,
     <<"draft_resume", "editor_api">>,
     <<"draft_resume", "editor_critique">>,
     <<"editor_api", "revise_resume">>,
     <<"editor_critique", "revise_resume">>,
     <<"write_final_draft", "draft_resume">>}

\* A variant that enters the graph at the gate.
Edges_enter_at_gate ==
    {<<START, "human_feedback">>,
     <<"extract_qualifications", "human_feedback">>,
     <<"draft_resume", "editor_api">>,
     <<"draft_resume", "editor_critique">>,
     <<"editor_api", "revise_resume">>,
     <<"editor_critique", "revise_resume">>,
     <<"write_final_draft", END>>}

\* builder.add_edge
Edges ==
    {<<START, "extract_qualifications">>,
     <<"extract_qualifications", "human_feedback">>,
     <<"draft_resume", "editor_api">>,
     <<"draft_resume", "editor_critique">>,
     <<"editor_api", "revise_resume">>,
     <<"editor_critique", "revise_resume">>,
     <<"write_final_draft", END>>}

\* builder.add_conditional_edges: the router reads the state with the
\* node's own update applied.
ConditionalEdges(node, st) ==
    IF node = "human_feedback" THEN {should_human_feedback_continue(st)}
    ELSE IF node = "revise_resume" THEN {should_continue(st)}
    ELSE {}

\* A variant that interrupts before drafting instead.
interrupt_before_draft == {"draft_resume"}

\* builder.compile(interrupt_before=[...])
interrupt_before == {"human_feedback"}

\* What a node is called with: a node reached by a plain edge receives the
\* state of the graph.
NodeInput(node, st) == st

\* The record kept of a call of an editor.
Received(node, st) ==
    IF node \in {"editor_api", "editor_critique"}
    THEN Some([node |-> node, arg |-> NodeInput(node, st)])
    ELSE Absent

Successors(node, st) ==
    {e[2] : e \in {d \in Edges : d[1] = node}} \cup ConditionalEdges(node, st)

\* The order in which the updates of one superstep are merged: by node name.
TaskOrder ==
    <<"draft_resume", "editor_api", "editor_critique", "extract_qualifications",
      "human_feedback", "revise_resume", "write_final_draft">>

RECURSIVE MergeFrom(_, _, _)
MergeFrom(st, done, i) ==
    IF i > Len(TaskOrder) THEN st
    ELSE MergeFrom(IF TaskOrder[i] \in DOMAIN done
                   THEN ApplyWrites(st, done[TaskOrder[i]]) ELSE st,
                   done, i + 1)

\* The state after a superstep whose nodes returned the updates `done`.
MergeAll(st, done) == MergeFrom(st, done, 1)

\* The nodes of the next superstep: every successor of a node that ran.
NextTasks(st, done) ==
    UNION {Successors(n, ApplyWrites(st, done[n])) : n \in DOMAIN done}

\* A superstep is over when each of its nodes has returned.
StepOver(scheduled, done) == DOMAIN done = scheduled

----------------------------------------------------------------------------
\* The run.

InitialInputs ==
    [job_post : {Some(JobPost)},
     human_feedback : {Absent} \cup {Some(f) : f \in InitialFeedbacks},
     resume_input : {Some(ResumeInput)},
     qualifications : {Absent},
     resume_draft : {Absent},
     editor_feedback : {<<>>},
     iteration : {Absent} \cup {Some(i) : i \in MinInitIteration..MaxInitIteration}]

\* graph.invoke(initial_state): the entry edge schedules extract_qualifications.
Init ==
    /\ state \in InitialInputs
    /\ input = state
    /\ status = "running"
    /\ tasks = Successors(START, state)
    /\ pending = NoWrites
    /\ log = <<>>
    /\ prompt = Absent
    /\ gateSeen = <<>>
    /\ patches = <<>>
    /\ failed = Absent
    /\ received = Absent

\* Node `node` of the current superstep returns update `w`.  When it is the
\* last of the superstep, the updates are merged, the next superstep is
\* scheduled, and the run ends at END or pauses before an interrupt node.
Return(node, w) ==
    LET done == pending @@ (node :> w) IN
    /\ status = "running"
    /\ node \in tasks \ DOMAIN pending
    /\ failed' = failed
    /\ input' = input
    /\ patches' = patches
    /\ received' = Received(node, state)
    /\ IF StepOver(tasks, done)
       THEN LET next == NextTasks(state, done) \ {END} IN
            /\ state' = MergeAll(state, done)
            /\ pending' = NoWrites
            /\ tasks' = next
            /\ status' = IF next = {} THEN "done"
                         ELSE IF next \cap interrupt_before # {} THEN "paused"
                         ELSE "running"
            /\ log' = log \o <<node>> \o
                      (IF next = {} THEN <<END>>
                       ELSE IF next \cap interrupt_before # {} THEN <<INTERRUPT>>
                       ELSE <<>>)
       ELSE /\ pending' = done
            /\ log' = Append(log, node)
            /\ UNCHANGED <<state, tasks, status>>

\* The LLM call of `node` raises: the invocation aborts.
Raise(node) ==
    /\ status = "running"
    /\ node \in tasks \ DOMAIN pending
    /\ status' = "error"
    /\ failed' = Some(node)
    /\ received' = Received(node, state)
    /\ UNCHANGED <<state, tasks, pending, log, gateSeen, input, patches>>

ExtractQualifications ==
    \E answer \in QualificationsOut :
        /\ Return("extract_qualifications", qua_builder(state, answer))
        /\ prompt' = Some(ExtractPrompt(state))
        /\ gateSeen' = gateSeen

ExtractQualificationsFails ==
    /\ Raise("extract_qualifications")
    /\ prompt' = Some(ExtractPrompt(state))

HumanFeedback ==
    /\ Return("human_feedback", human_feedback_node(state))
    /\ gateSeen' = Append(gateSeen, state.human_feedback)
    /\ prompt' = prompt

DraftResume ==
    \E answer \in DraftOut :
        /\ Return("draft_resume", draft_resume(state, answer))
        /\ prompt' = Some(DraftPrompt(state))
        /\ gateSeen' = gateSeen

DraftResumeFails ==
    /\ Raise("draft_resume")
    /\ prompt' = Some(DraftPrompt(state))

EditorApi ==
    /\ Return("editor_api", editor_api(state))
    /\ UNCHANGED <<prompt, gateSeen>>

EditorCritique ==
    \E answer \in CritiqueOut :
        /\ Return("editor_critique", editor_critique(state, answer))
        /\ prompt' = Some(CritiquePrompt(state))
        /\ gateSeen' = gateSeen

\* A variant of the node that catches the error and returns no feedback.
EditorCritiqueFails_swallowed ==
    /\ Return("editor_critique", "editor_feedback" :> <<>>)
    /\ prompt' = Some(CritiquePrompt(state))
    /\ gateSeen' = gateSeen

EditorCritiqueFails ==
    /\ Raise("editor_critique")
    /\ prompt' = Some(CritiquePrompt(state))

ReviseResume ==
    /\ Return("revise_resume", revise_resume(state))
    /\ UNCHANGED <<prompt, gateSeen>>

WriteFinalDraft ==
    \E answer \in DraftOut :
        /\ Return("write_final_draft", write_final_draft(state, answer))
        /\ prompt' = Some(FinalPrompt(state))
        /\ gateSeen' = gateSeen

WriteFinalDraftFails ==
    /\ Raise("write_final_draft")
    /\ prompt' = Some(FinalPrompt(state))

\* The caller's patch at a pause: nothing, or a new human_feedback.
Patches == {NoWrites} \cup {"human_feedback" :> f : f \in Feedbacks}

\* The caller resumes a paused run with a patch: the patch is merged into
\* the checkpointed state and the run continues with the interrupted node.
Resume ==
    \E patch \in Patches :
        /\ status = "paused"
        /\ Len(patches) < MaxResumes
        /\ state' = ApplyWrites(state, patch)
        /\ status' = "running"
        /\ patches' = Append(patches, patch)
        /\ UNCHANGED <<tasks, pending, log, prompt, gateSeen, input, failed, received>>

Next ==
    \/ ExtractQualifications
    \/ ExtractQualificationsFails
    \/ HumanFeedback
    \/ DraftResume
    \/ DraftResumeFails
    \/ EditorApi
    \/ EditorCritique
    \/ EditorCritiqueFails
    \/ ReviseResume
    \/ WriteFinalDraft
    \/ WriteFinalDraftFails
    \/ Resume

Spec == Init /\ [][Next]_vars

----------------------------------------------------------------------------
\* Reading the history.

\* How often `name` occurs in the log.
Count(name) == Cardinality({i \in DOMAIN log : log[i] = name})

\* The last entry of the log.
Last == IF log = <<>> THEN START ELSE log[Len(log)]

IsPrefix(s, t) == Len(s) <= Len(t) /\ SubSeq(t, 1, Len(s)) = s

OkPatch == "human_feedback" :> "ok"

\* One round: a draft, the two editors in either order of completion, the join.
RoundLogs ==
    {<<"draft_resume", "editor_api", "editor_critique", "revise_resume">>,
     <<"draft_resume", "editor_critique", "editor_api", "revise_resume">>}

----------------------------------------------------------------------------
\* The scenario of C1 and the logs of its complete runs.
C1_Scenario ==
    /\ input.human_feedback = Absent
    /\ input.iteration = Some(0)
    /\ patches # <<>> => patches[1] = OkPatch

C1_FullLogs ==
    {<<"extract_qualifications", INTERRUPT, "human_feedback">> \o r1 \o r2
        \o <<"write_final_draft", END>> : r1 \in RoundLogs, r2 \in RoundLogs}

\* C1: from human_feedback absent and iteration 0, the invocation runs
\* extract_qualifications once and pauses before the gate; resumed with
\* human_feedback = "ok" it runs exactly two rounds of draft, both editors and
\* revise, then write_final_draft once and the terminal marker, and ends
\* with iteration = 2.
C1_TwoRoundsThenFinal ==
    C1_Scenario =>
        /\ \E full \in C1_FullLogs : IsPrefix(log, full)
        /\ patches = <<>> => IsPrefix(log, <<"extract_qualifications", INTERRUPT>>)
        /\ status = "paused" => log = <<"extract_qualifications", INTERRUPT>>
        /\ status = "done" =>
            /\ log \in C1_FullLogs
            /\ state.iteration = Some(2)

C1_Witness ==
    /\ C1_Scenario
    /\ patches = <<OkPatch>>
    /\ status = "done"
    /\ Count("draft_resume") = 2

\* C2 (as claimed): right after every draft_resume, editor_feedback is empty.
C2_EmptyAfterDraft ==
    (status = "running" /\ Last = "draft_resume") => state.editor_feedback = <<>>

\* C3 (as claimed): when revise_resume runs, right after it, and when
\* write_final_draft reads the field, editor_feedback has exactly 2 entries.
C3_TwoAtJoin ==
    (status = "running" /\ ("revise_resume" \in tasks \/ Last = "revise_resume"))
        => Len(state.editor_feedback) = 2

\* C4: in a run that starts with iteration 0, write_final_draft runs once,
\* directly after the revise_resume that makes iteration 2, and never while
\* iteration < 2.
C4_FinalOnceAtTwo ==
    Get(input.iteration, 0) = 0 =>
        /\ Count("write_final_draft") <= 1
        /\ status = "done" => Count("write_final_draft") = 1
        /\ \A i \in DOMAIN log : log[i] = "write_final_draft" =>
              /\ i > 1 /\ log[i - 1] = "revise_resume"
              /\ Count("revise_resume") = 2
        /\ "write_final_draft" \in tasks =>
              /\ Last = "revise_resume"
              /\ state.iteration = Some(2)
              /\ Count("revise_resume") = 2
        /\ Get(state.iteration, 0) < 2 =>
              /\ "write_final_draft" \notin tasks
              /\ Count("write_final_draft") = 0
        /\ (Last = "revise_resume" /\ state.iteration = Some(2)) =>
              tasks = {"write_final_draft"}

C4_Witness ==
    /\ Get(input.iteration, 0) = 0
    /\ Last = "write_final_draft" \/ (Len(log) > 1 /\ log[Len(log) - 1] = "write_final_draft")
    /\ state.iteration = Some(2)

\* The runs C5 is about.
C5_Scenario ==
    /\ input.human_feedback \in {Absent, Some("ok")}
    /\ \A k \in DOMAIN patches : patches[k] \in {NoWrites, OkPatch}

\* C5: when human_feedback is absent or "ok" initially and no resume sets it
\* to anything else, the gate routes to draft_resume and
\* extract_qualifications has run exactly once.
C5_NoSecondExtraction ==
    C5_Scenario =>
        /\ Count("extract_qualifications") <= 1
        /\ "extract_qualifications" \in tasks => log = <<>>
        /\ Count("human_feedback") <= 1
        /\ Last = "human_feedback" => tasks = {"draft_resume"}
        /\ ("draft_resume" \in tasks \/ Count("draft_resume") > 0) =>
              Count("extract_qualifications") = 1

C5_Witness ==
    /\ C5_Scenario
    /\ patches = <<NoWrites>>
    /\ Last = "draft_resume"
    /\ Count("extract_qualifications") = 1

----------------------------------------------------------------------------
\* The place in the log of the k-th execution of `name`.
Pos(name, k) ==
    CHOOSE i \in DOMAIN log :
        log[i] = name /\ Cardinality({j \in 1..i : log[j] = name}) = k

Editors == {"editor_api", "editor_critique"}

\* C6: a human_feedback that is non-empty text other than "ok" makes the gate
\* route back to extract_qualifications once: that extraction is followed by
\* a pause before the gate, and when the next resume patches "ok" the gate
\* routes to draft_resume.  The extractions number one plus the gate
\* evaluations that saw a value other than absent or "ok".
C6_ReextractOncePerValue ==
    /\ \A k \in DOMAIN gateSeen :
        (gateSeen[k] # Absent /\ gateSeen[k][1] \notin {"ok", ""}) =>
            LET i == Pos("human_feedback", k) IN
            /\ i = Len(log) => tasks = {"extract_qualifications"}
            /\ i < Len(log) =>
                /\ Len(log) >= i + 2
                /\ log[i + 1] = "extract_qualifications"
                /\ log[i + 2] = INTERRUPT
                /\ tasks = {"human_feedback"} \/ Len(log) > i + 2
            /\ (Len(patches) > k /\ patches[k + 1] = OkPatch /\ Len(gateSeen) > k) =>
                /\ gateSeen[k + 1] = Some("ok")
                /\ log[i + 3] = "human_feedback"
                /\ Len(log) = i + 3 => tasks = {"draft_resume"}
                /\ Len(log) > i + 3 => log[i + 4] = "draft_resume"
    /\ Count("extract_qualifications")
          + (IF "extract_qualifications" \in tasks THEN 1 ELSE 0)
       = 1 + Cardinality({k \in DOMAIN gateSeen : gateSeen[k] \notin {Absent, Some("ok")}})

C6_Witness ==
    /\ patches = <<"human_feedback" :> "need AWS keyword", OkPatch>>
    /\ Count("extract_qualifications") = 2
    /\ Last = "draft_resume"

\* C7: after a resume whose patch sets human_feedback to f, f not "ok", the
\* gate's router reads f, the next node executed is extract_qualifications,
\* its request embeds f, and the gate runs again only after it.
C7_ReextractionReadsPatch ==
    \A k \in DOMAIN patches :
        ("human_feedback" \in DOMAIN patches[k] /\ patches[k].human_feedback # "ok"
            /\ Count("human_feedback") >= k) =>
            LET f == patches[k].human_feedback
                i == Pos("human_feedback", k)
            IN  /\ gateSeen[k] = Some(f)
                /\ i = Len(log) => tasks = {"extract_qualifications"}
                /\ i < Len(log) => log[i + 1] = "extract_qualifications"
                /\ \A j \in DOMAIN log : (j > i /\ log[j] = "human_feedback") => j > i + 1
                \* the extraction after gate k returned, and no later request was made
                /\ (Len(log) = i + 2 /\ Count("human_feedback") = k /\ status # "error") =>
                      /\ prompt # Absent
                      /\ prompt[1].node = "extract_qualifications"
                      /\ prompt[1].human_feedback = f
                \* the extraction after gate k raised
                /\ (Len(log) = i /\ status = "error") =>
                      /\ prompt[1].node = "extract_qualifications"
                      /\ prompt[1].human_feedback = f

C7_Witness ==
    /\ patches = <<"human_feedback" :> "need AWS keyword">>
    /\ input.human_feedback = Absent
    /\ status = "paused"
    /\ Count("extract_qualifications") = 2
    /\ prompt[1].human_feedback = "need AWS keyword"

\* C8: revise_resume is scheduled only when both editors of the round have
\* returned and their updates are merged, and it runs once per round.
C8_JoinAfterBothEditors ==
    /\ Count("revise_resume") <= Count("editor_api")
    /\ Count("revise_resume") <= Count("editor_critique")
    /\ Count("revise_resume") <= Count("draft_resume")
    /\ Count("revise_resume") >= Count("draft_resume") - 1
    /\ \A i \in DOMAIN log : log[i] = "revise_resume" =>
          i > 2 /\ {log[i - 1], log[i - 2]} = Editors
    /\ "revise_resume" \in tasks =>
          /\ tasks = {"revise_resume"}
          /\ pending = NoWrites
          /\ Count("editor_api") = Count("draft_resume")
          /\ Count("editor_critique") = Count("draft_resume")
          /\ Count("revise_resume") = Count("draft_resume") - 1
          /\ {Last, log[Len(log) - 1]} = Editors
          /\ LET n == Len(state.editor_feedback) IN
                /\ n >= 2
                /\ state.editor_feedback[n - 1] = ApiFeedback
                /\ state.editor_feedback[n] \in CritiqueOut

C8_Witness ==
    /\ tasks = {"revise_resume"}
    /\ Count("revise_resume") = 1
    /\ Last = "editor_api"

\* C9: whichever editor returns first, the merge at the end of the editors'
\* superstep keeps what editor_feedback held and adds one entry of each
\* editor; each editor returns exactly one entry.
C9_BothAppendsKept ==
    [][ (tasks = Editors /\ tasks' # tasks) =>
            LET old == state.editor_feedback
                new == state'.editor_feedback
                n == Len(old)
            IN  /\ Len(new) = n + 2
                /\ SubSeq(new, 1, n) = old
                /\ \E c \in CritiqueOut : {new[n + 1], new[n + 2]} = {ApiFeedback, c}
                /\ \A e \in DOMAIN pending :
                      /\ Len(pending[e].editor_feedback) = 1
                      /\ pending[e].editor_feedback[1] \in {new[n + 1], new[n + 2]} ]_vars

C9_Witness ==
    /\ tasks = {"revise_resume"}
    /\ Len(log) > 1
    /\ log[Len(log) - 1] = "editor_critique"
    /\ Last = "editor_api"
    /\ Len(state.editor_feedback) >= 2

\* C10: the run pauses only before the gate, it pauses every time the gate is
\* scheduled, and never from draft_resume on.
C10_PauseOnlyBeforeGate ==
    /\ status = "paused" =>
          /\ tasks = {"human_feedback"}
          /\ Last = INTERRUPT
          /\ Count("draft_resume") = 0
    /\ \A i \in DOMAIN log :
          /\ log[i] = "human_feedback" => (i > 1 /\ log[i - 1] = INTERRUPT)
          /\ log[i] = INTERRUPT => (i > 1 /\ log[i - 1] = "extract_qualifications")
          /\ log[i] = "extract_qualifications" => (i < Len(log) /\ log[i + 1] = INTERRUPT)
    /\ ("human_feedback" \in tasks /\ status = "running") =>
          /\ Last = INTERRUPT
          /\ Len(patches) = Count(INTERRUPT)
    /\ Count(INTERRUPT) = Count("extract_qualifications")

C10_Witness ==
    /\ status = "paused"
    /\ Count("extract_qualifications") = 2
    /\ Count(INTERRUPT) = 2

----------------------------------------------------------------------------
\* human_feedback as the k-th resume leaves it: the last patch that sets it,
\* else the caller's initial value.
RECURSIVE FeedbackAfter(_)
FeedbackAfter(k) ==
    IF k = 0 THEN input.human_feedback
    ELSE IF "human_feedback" \in DOMAIN patches[k] THEN Some(patches[k].human_feedback)
    ELSE FeedbackAfter(k - 1)

\* What follows the k-th gate in the log, or what is scheduled when the
\* gate is the last entry.
AfterGate(k) ==
    LET i == Pos("human_feedback", k) IN
    IF i = Len(log) THEN tasks ELSE {log[i + 1]}

\* C11: a resume whose patch sets human_feedback = v continues exactly as a
\* resume with an empty patch of a run in which human_feedback already was v:
\* the resume changes nothing but human_feedback, and what the gate reads,
\* where it routes and what a re-extraction embeds are a function of the
\* value in force, whether the k-th patch set it or it was there before.
C11_PatchedAsIfPresent ==
    /\ [](\A k \in DOMAIN gateSeen :
            LET v == FeedbackAfter(k) IN
            /\ gateSeen[k] = v
            /\ AfterGate(k) = {should_human_feedback_continue([human_feedback |-> v])}
            /\ (Len(log) = Pos("human_feedback", k) + 2 /\ Last = INTERRUPT
                    /\ Len(gateSeen) = k /\ status # "error") =>
                  prompt[1] = ExtractPrompt([job_post |-> input.job_post,
                                             human_feedback |-> v]))
    /\ [][ (status = "paused" /\ status' = "running") =>
            LET p == patches'[Len(patches')] IN
            /\ state' = IF "human_feedback" \in DOMAIN p
                        THEN [state EXCEPT !.human_feedback = Some(p.human_feedback)]
                        ELSE state
            /\ state'.human_feedback = FeedbackAfter(Len(patches))'
            /\ tasks' = tasks /\ pending' = pending /\ log' = log ]_vars

\* The same value reaches the gate once by the patch and once by being there
\* already: here, patched at the second resume of a run.
C11_Witness ==
    /\ input.human_feedback = Some("ok")
    /\ patches = <<"human_feedback" :> "need AWS keyword", "human_feedback" :> "ok">>
    /\ Len(gateSeen) = 2
    /\ Last = "draft_resume"

----------------------------------------------------------------------------
\* The nodes that call the LLM.
LLMNodes == {"extract_qualifications", "draft_resume", "editor_critique", "write_final_draft"}

\* C12: when a node's LLM call raises, the invocation ends in error, nothing
\* runs afterwards (no retry, no successor), and the state is the one of
\* the last merge: the failed node contributes nothing, an update of the
\* other editor that already returned is not merged, and a failed
\* editor_critique leaves iteration as the completed rounds made it.
C12_FailureAborts ==
    /\ [](status = "error" =>
            /\ failed # Absent
            /\ failed[1] \in LLMNodes \cap (tasks \ DOMAIN pending)
            /\ Get(state.iteration, 0) = Get(input.iteration, 0) + Count("revise_resume")
            /\ failed[1] = "editor_critique" =>
                  /\ Count("revise_resume") = Count("draft_resume") - 1
                  /\ Count("editor_critique") = Count("draft_resume") - 1)
    /\ [][ /\ status # "error"
           /\ (\/ ExtractQualificationsFails \/ DraftResumeFails
               \/ EditorCritiqueFails \/ WriteFinalDraftFails) =>
                 /\ status' = "error"
                 /\ state' = state
                 /\ tasks' = tasks /\ pending' = pending /\ log' = log
           /\ pending' # NoWrites => state' = state ]_vars

\* editor_critique fails in the second round, after editor_api returned.
C12_Witness ==
    /\ status = "error"
    /\ failed = Some("editor_critique")
    /\ "editor_api" \in DOMAIN pending
    /\ Count("revise_resume") = 1

----------------------------------------------------------------------------
\* C13: write_final_draft is followed by the terminal marker and by nothing
\* else: the run is done, nothing is scheduled, no step follows, and
\* resume_draft stays the final answer.
C13_FinalIsTerminal ==
    /\ [](\A i \in DOMAIN log : log[i] = "write_final_draft" =>
            /\ Len(log) = i + 1
            /\ log[i + 1] = END
            /\ status = "done"
            /\ tasks = {}
            /\ prompt[1].node = "write_final_draft"
            /\ state.resume_draft # Absent /\ state.resume_draft[1] \in DraftOut)
    /\ [](status = "done" <=> Last = END)
    /\ [][status # "done"]_vars

C13_Witness ==
    /\ status = "done"
    /\ Count("write_final_draft") = 1
    /\ Count("draft_resume") = 3

----------------------------------------------------------------------------
\* C14: every execution of revise_resume adds exactly 1 to iteration (absent
\* counts as 0) and changes no other field of the state.
C14_ReviseOnlyIncrements ==
    [][ (tasks = {"revise_resume"} /\ status = "running" /\ log' # log) =>
            /\ state' = [state EXCEPT !.iteration = Some(Get(state.iteration, 0) + 1)]
            /\ \A k \in ResumeState \ {"iteration"} : state'[k] = state[k]
            /\ Get(state'.iteration, 0) = Get(state.iteration, 0) + 1 ]_vars

\* revise_resume ran on a state that had no iteration.
C14_Witness ==
    /\ input.iteration = Absent
    /\ Last = "revise_resume"
    /\ state.iteration = Some(1)
    /\ Len(state.editor_feedback) = 2

----------------------------------------------------------------------------
\* C15: the gate's router chooses draft_resume exactly when human_feedback is
\* absent or equal to "ok"; for every other value, the empty text and the
\* variants of "ok" in case or whitespace included, it chooses
\* extract_qualifications; it returns no other name.
C15_GateRouting ==
    /\ \A v \in {Absent} \cup {Some(f) : f \in Feedbacks} :
          LET to == should_human_feedback_continue([human_feedback |-> v]) IN
          /\ to \in {"extract_qualifications", "draft_resume"}
          /\ to = "draft_resume" <=> v \in {Absent, Some("ok")}
    /\ \A k \in DOMAIN gateSeen :
          /\ gateSeen[k] \in {Absent} \cup {Some(f) : f \in Feedbacks}
          /\ AfterGate(k) \in {{"extract_qualifications"}, {"draft_resume"}}
          /\ AfterGate(k) = {"draft_resume"} <=> gateSeen[k] \in {Absent, Some("ok")}

\* The gate has routed a variant of "ok" back to extraction.
C15_Witness ==
    /\ Len(gateSeen) = 2
    /\ gateSeen[1] = Some(" ok")
    /\ gateSeen[2] = Some("OK")
    /\ Count("extract_qualifications") = 3

----------------------------------------------------------------------------
\* C16 (as claimed): each editor is called with the payload that
\* send_to_editors builds for it, which holds the current resume_draft and
\* nothing else.
C16_IsolatedPayload ==
    received # Absent =>
        \E i \in DOMAIN send_to_editors(state) :
            /\ send_to_editors(state)[i].node = received[1].node
            /\ send_to_editors(state)[i].arg = received[1].arg

----------------------------------------------------------------------------
\* C17: a draft_resume that should_continue routed back to embeds in its
\* request the joined editor_feedback as the join left it, whose last two
\* entries are those of the two editors in the preceding round.
C17_NextDraftReadsFeedback ==
    [][ (tasks = {"draft_resume"} /\ status = "running" /\ Last = "revise_resume"
            /\ (log' # log \/ status' = "error")) =>
            LET fb == state.editor_feedback
                n == Len(fb)
            IN  /\ n >= 2
                /\ fb[n - 1] = ApiFeedback
                /\ fb[n] \in CritiqueOut
                /\ prompt'[1].node = "draft_resume"
                /\ prompt'[1].feedback = Join(fb)
                /\ prompt'[1].feedback # ""
                /\ \E head \in {"", Join(SubSeq(fb, 1, n - 2)) \o "\n"} :
                      prompt'[1].feedback = head \o ApiFeedback \o "\n" \o fb[n] ]_vars

\* The second draft_resume has read the two entries of the first round.
C17_Witness ==
    /\ Last = "draft_resume"
    /\ Count("draft_resume") = 2
    /\ prompt[1].node = "draft_resume"
    /\ prompt[1].feedback = ApiFeedback \o "\n" \o "critique_b"

----------------------------------------------------------------------------
\* C18: every execution of extract_qualifications sets qualifications to the
\* answer of its one LLM call, whatever the field held, and leaves every
\* other field as it was: resume_input, resume_draft, editor_feedback,
\* iteration, and also job_post and human_feedback.
C18_ExtractReplacesQualifications ==
    [][ (tasks = {"extract_qualifications"} /\ status = "running" /\ log' # log) =>
            /\ \E answer \in QualificationsOut :
                  state' = [state EXCEPT !.qualifications = Some(answer)]
            /\ \A k \in ResumeState \ {"qualifications"} : state'[k] = state[k]
            /\ prompt'[1].node = "extract_qualifications" ]_vars

\* A re-extraction has replaced the qualifications of the first one.
C18_Witness ==
    /\ Count("extract_qualifications") = 2
    /\ status = "paused"
    /\ input.human_feedback = Absent
    /\ state.human_feedback = Some("need AWS keyword")
    /\ state.qualifications = Some("quals_b")

----------------------------------------------------------------------------
\* The run in which every LLM call returns, and every scheduled node of the
\* drafting loop is eventually run by the engine.
NextReturning ==
    \/ ExtractQualifications
    \/ HumanFeedback
    \/ DraftResume
    \/ EditorApi
    \/ EditorCritique
    \/ ReviseResume
    \/ WriteFinalDraft
    \/ Resume

ReturningSpec ==
    /\ Init
    /\ [][NextReturning]_vars
    /\ WF_vars(DraftResume \/ EditorApi \/ EditorCritique \/ ReviseResume \/ WriteFinalDraft)

\* The iteration the run started with, absent counting as 0.
InitIteration == Get(input.iteration, 0)

\* The rounds a run makes that starts with iteration i: max(1, 2 - i).
Rounds(i) == IF 2 - i > 1 THEN 2 - i ELSE 1

\* C19: whatever iteration the caller starts with (absent counts as 0), once
\* the gate has routed to draft_resume and the LLM calls return, the run
\* reaches the terminal marker after exactly max(1, 2 - i) rounds, at least
\* one, and iteration never decreases.
C19_LoopTerminates ==
    /\ [](/\ Count("draft_resume") <= Rounds(InitIteration)
          /\ "draft_resume" \in tasks => Count("draft_resume") < Rounds(InitIteration)
          /\ "write_final_draft" \in tasks =>
                /\ Count("revise_resume") = Rounds(InitIteration)
                /\ Count("revise_resume") >= 1
          /\ status = "done" =>
                /\ Count("draft_resume") = Rounds(InitIteration)
                /\ Count("editor_api") = Rounds(InitIteration)
                /\ Count("editor_critique") = Rounds(InitIteration)
                /\ Count("revise_resume") = Rounds(InitIteration)
                /\ Count("write_final_draft") = 1
                /\ state.iteration = Some(InitIteration + Rounds(InitIteration)))
    /\ [][Get(state'.iteration, 0) >= Get(state.iteration, 0)]_vars
    /\ ("draft_resume" \in tasks) ~> (status = "done")

\* A run that started below 0 has made three rounds.
C19_Witness ==
    /\ input.iteration = Some(0 - 1)
    /\ status = "done"
    /\ Count("revise_resume") = 3
    /\ state.iteration = Some(2)

----------------------------------------------------------------------------
\* C20: draft_resume is scheduled or has run only if extract_qualifications
\* has completed, so that qualifications is set, and the latest evaluation
\* of the gate read human_feedback absent or "ok"; while human_feedback holds
\* another value and a resume does not patch it, the gate routes to another
\* extraction followed by another pause, not to draft_resume.
C20_DraftNeedsExtractionAndOk ==
    /\ ("draft_resume" \in tasks \/ Count("draft_resume") > 0) =>
          /\ Count("extract_qualifications") >= 1
          /\ state.qualifications # Absent
          /\ state.qualifications[1] \in QualificationsOut
          /\ gateSeen # <<>>
          /\ gateSeen[Len(gateSeen)] \in {Absent, Some("ok")}
          /\ state.human_feedback \in {Absent, Some("ok")}
    /\ \A i \in DOMAIN log : log[i] = "draft_resume" =>
          \E j \in 1..(i - 1) : log[j] = "extract_qualifications"
    /\ \A k \in DOMAIN gateSeen :
          (patches[k] = NoWrites /\ FeedbackAfter(k - 1) \notin {Absent, Some("ok")}) =>
              LET i == Pos("human_feedback", k) IN
              /\ gateSeen[k] = FeedbackAfter(k - 1)
              /\ AfterGate(k) = {"extract_qualifications"}
              /\ Len(log) > i => (Len(log) >= i + 2 /\ log[i + 2] = INTERRUPT)
              /\ Len(log) = i + 2 => tasks = {"human_feedback"}
              /\ Count("draft_resume") = 0 \/ Len(gateSeen) > k

\* Two resumes without a patch: each led to another extraction and pause.
C20_Witness ==
    /\ input.human_feedback = Some("need AWS keyword")
    /\ patches = <<NoWrites, NoWrites>>
    /\ Count("extract_qualifications") = 3
    /\ status = "paused"

====
